---- MODULE Spec2Model ----
(***************************************************************************)
(* Model of internal/gql/gql.go: one call of Subscribe, the goroutine that *)
(* watches its context, the peer that puts frames on the websocket, and    *)
(* the caller's context (deadline or cancellation).                        *)
(***************************************************************************)
EXTENDS Integers, Sequences, FiniteSets, TLC

\* Bounds of the model.
MaxMsgs == 4    \* frames the peer sends during one Subscribe call
MaxInbox == 1   \* frames received on the connection and not yet read
MaxLabels == 6  \* dot-separated labels in an endpoint's host
MaxCalls == 2   \* calls of GenerateWSAddr on one url.URL value
MaxTicketLen == 3  \* characters in a ticket number
MaxPolicies == 2   \* policy entries in the document FetchAccounts receives

\* wsSubscriber.reqID (uuid.New()) and an id that differs from it.
ReqID == "req"
OtherID == "other"

\* wsMessage.Payload is a pointer: nil, or one of two distinguishable payloads.
NoPayload == "nil"
Payloads == {"p1", "p2"}

Msg(t, i, p) == [type |-> t, id |-> i, payload |-> p]

\* ReadJSON of the JSON text null leaves res == nil with no error.
NullMsg == Msg("null", "", NoPayload)

\* lastMsg before anything was read.
NoMsg == Msg("none", "", NoPayload)

\* The frames the peer may send: every kind the loops distinguish, one kind
\* they do not know ("complete"), ids equal to and different from reqID,
\* payload present and absent where the code looks at it.
Msgs ==
    { Msg("connection_ack", "", NoPayload),
      Msg("connection_error", "", "p1"),
      Msg("ka", "", NoPayload),
      Msg("complete", ReqID, NoPayload),
      NullMsg }
    \cup { Msg("error", "", p) : p \in {NoPayload, "p1"} }
    \cup { Msg("start_ack", i, NoPayload) : i \in {ReqID, OtherID} }
    \cup { Msg("data", i, p) : i \in {ReqID, OtherID}, p \in Payloads \cup {NoPayload} }

\* Payload.Errors of the two payloads: the errorType of each wsError.
SubErrors(p) ==
    IF p = "p1" THEN << "UnauthorizedException" >>
    ELSE IF p = "p2" THEN << "BadRequestException", "ThrottlingException" >>
    ELSE << >>

\* What onData may return: (cont, err).
HandlerRets == [cont : BOOLEAN, err : BOOLEAN]

VARIABLES
    pc,         \* position of the goroutine running Subscribe
    ctx,        \* state of Subscribe's context: "live", or why it is done
    ctxAt,      \* history: pc at which the caller's deadline/cancel hit
    ctxPending, \* history: what was waiting to be read in Active at that moment
    watcher,    \* the goroutine of lines 148-153: "absent", "waiting", "exited"
    wsClosed,   \* ws.Close() has been called at least once
    closeCalls, \* number of calls of ws.Close()
    inbox,      \* frames received and not yet read
    srvSent,    \* number of frames the peer has sent
    sent,       \* types of the frames written by send(), in order
    reads,      \* number of frames returned by read()
    lastMsg,    \* the last frame returned by read()
    lastPhase,  \* history: pc at which lastMsg was read
    ackSeen,    \* history: start() has read a start_ack whose id is reqID
    readyCalls, \* number of calls of onReady
    calls,      \* the calls of onData: payload, returned (cont, err), reads so far
    result      \* what Subscribe returns: kind and underlying cause

\* The variables of the Subscribe call.
subVars == << pc, ctx, ctxAt, ctxPending, watcher, wsClosed, closeCalls, inbox, srvSent, sent,
              reads, lastMsg, lastPhase, ackSeen, readyCalls, calls, result >>

\* The variables of the functions studied on their own (GenerateWSAddr,
\* TicketRegex) and of the auth extension of Subscribe: unused, and left alone, while Subscribe's protocol steps are
\* studied.
VARIABLES
    fpc,        \* which function is being exercised, and how far it got
    u,          \* the url.URL value that GenerateWSAddr is given a pointer to
    u0,         \* history: that value as url.Parse produced it
    addrs,      \* the strings returned by the calls of GenerateWSAddr, in order
    ticket,     \* the string given to TicketRegex.MatchString
    ticketOK,   \* "match" or "nomatch" as MatchString returned, "unknown" before
    auth,       \* the auth material of one Subscribe call: the accessToken
                \* argument, the authExt map, the sub-protocols offered at the
                \* dial, wsSubscriber.authExt, the start frame's authorization
    fa          \* FetchAccounts after Subscribe: the policy entries received,
                \* the index of the next one, the accounts map built so far

addrVars == << u, u0, addrs >>
ticketVars == << ticket, ticketOK >>

auxVars == << fpc, addrVars, ticketVars, auth, fa >>

vars == << subVars, auxVars >>

Res(k, c) == [kind |-> k, cause |-> c]

\* The server-reported sub-errors that the error returned by Subscribe
\* carries. start and process give each sub-error to slog.Warn and return
\* fmt.Errorf("%w: websocket error", ErrUnexpected) (lines 256-260, 286-290);
\* no other error is built from a frame's Errors.
CarriedErrors(r) == << >>

ReadPcs == {"init_read", "start_read", "process_read"}
UnwindPcs == {"defer_close", "defer_cancel", "returned", "panicked"}
FinalPcs == {"returned", "panicked"}

\* No url.URL value.
NoURL == [scheme |-> "", host |-> << >>, path |-> << >>]

\* The auxiliary variables while they are not in use.
AddrIdle ==
    /\ u = NoURL
    /\ u0 = NoURL
    /\ addrs = << >>

TicketIdle ==
    /\ ticket = << >>
    /\ ticketOK = "unknown"

\* No map built, nothing offered, nothing sent.
NoAuthExt == [host |-> << >>, Authorization |-> ""]
NoAuth ==
    [accessToken |-> "", authExt |-> NoAuthExt, offered |-> << >>,
     wssAuthExt |-> NoAuthExt, startAuth |-> << >>]

AuthIdle == auth = NoAuth

\* No document received, no map made.
NoFetch == [policy |-> << >>, next |-> 1, accounts |-> << >>]

FetchIdle == fa = NoFetch

AuxIdle ==
    /\ fpc = "idle"
    /\ AddrIdle
    /\ TicketIdle
    /\ AuthIdle
    /\ FetchIdle

\* Subscribe has just been called.
SubInit ==
    /\ pc = "parse"
    /\ ctx = "live"
    /\ ctxAt = "none"
    /\ ctxPending = "none"
    /\ watcher = "absent"
    /\ wsClosed = FALSE
    /\ closeCalls = 0
    /\ inbox = << >>
    /\ srvSent = 0
    /\ sent = << >>
    /\ reads = 0
    /\ lastMsg = NoMsg
    /\ lastPhase = "none"
    /\ ackSeen = FALSE
    /\ readyCalls = 0
    /\ calls = << >>
    /\ result = Res("none", "none")

Init == SubInit /\ AuxIdle

----------------------------------------------------------------------------
\* The switch statements of the three read loops, as functions of the frame.

\* initConnection, lines 211-218, with the connection_error case left out
\* (the frame falls to the default branch).
initStepErrorIgnored(pkt) ==
    IF pkt = NullMsg THEN "panic"
    ELSE IF pkt.type = "connection_ack" THEN "ack"
    ELSE "continue"

\* initConnection, lines 211-218, with the default branch ending the loop.
initStepDefaultAck(pkt) ==
    IF pkt = NullMsg THEN "panic"
    ELSE IF pkt.type = "connection_error" THEN "rejected"
    ELSE "ack"

\* initConnection, lines 211-218. pkt == nil panics at pkt.Type.
initStep(pkt) ==
    IF pkt = NullMsg THEN "panic"
    ELSE IF pkt.type = "connection_ack" THEN "ack"
    ELSE IF pkt.type = "connection_error" THEN "rejected"
    ELSE "continue"

\* start, lines 252-271, with the start_ack id check left out.
startStepAnyAck(pkt) ==
    IF pkt = NullMsg THEN "panic"
    ELSE IF pkt.type = "ka" THEN "continue"
    ELSE IF pkt.type = "error"
         THEN IF pkt.payload = NoPayload THEN "panic" ELSE "rejected"
    ELSE IF pkt.type = "start_ack" THEN "ack"
    ELSE "continue"

\* start, lines 252-271, with the default branch returning the error.
startStepDefaultFatal(pkt) ==
    IF pkt = NullMsg THEN "panic"
    ELSE IF pkt.type = "ka" THEN "continue"
    ELSE IF pkt.type = "error"
         THEN IF pkt.payload = NoPayload THEN "panic" ELSE "rejected"
    ELSE IF pkt.type = "start_ack"
         THEN IF pkt.id # ReqID THEN "continue" ELSE "ack"
    ELSE "rejected"

\* start, lines 252-271, with a data frame of the id reqID taken for the
\* acknowledgement.
startStepDataAck(pkt) ==
    IF pkt = NullMsg THEN "panic"
    ELSE IF pkt.type = "ka" THEN "continue"
    ELSE IF pkt.type = "error"
         THEN IF pkt.payload = NoPayload THEN "panic" ELSE "rejected"
    ELSE IF pkt.type \in {"start_ack", "data"}
         THEN IF pkt.id # ReqID THEN "continue" ELSE "ack"
    ELSE "continue"

\* start, lines 252-271. pkt.Payload.Errors panics on a nil Payload.
startStep(pkt) ==
    IF pkt = NullMsg THEN "panic"
    ELSE IF pkt.type = "ka" THEN "continue"
    ELSE IF pkt.type = "error"
         THEN IF pkt.payload = NoPayload THEN "panic" ELSE "rejected"
    ELSE IF pkt.type = "start_ack"
         THEN IF pkt.id # ReqID THEN "continue" ELSE "ack"
    ELSE "continue"

\* process, lines 282-312, with "ka" sharing the case of "error".
processStepKaFatal(pkt) ==
    IF pkt = NullMsg THEN "panic"
    ELSE IF pkt.type \in {"ka", "error"}
         THEN IF pkt.payload = NoPayload THEN "panic" ELSE "stream_error"
    ELSE IF pkt.type = "data"
         THEN IF pkt.id # ReqID THEN "continue"
              ELSE IF pkt.payload = NoPayload THEN "panic"
              ELSE "dispatch"
    ELSE "continue"

\* process, lines 282-312, with the id check of a data frame left out.
processStepNoIdCheck(pkt) ==
    IF pkt = NullMsg THEN "panic"
    ELSE IF pkt.type = "ka" THEN "continue"
    ELSE IF pkt.type = "error"
         THEN IF pkt.payload = NoPayload THEN "panic" ELSE "stream_error"
    ELSE IF pkt.type = "data"
         THEN IF pkt.payload = NoPayload THEN "panic" ELSE "dispatch"
    ELSE "continue"

\* process, lines 282-312. pkt.Payload.Errors and pkt.Payload.Data panic on
\* a nil Payload; the id check of a data frame comes before the latter.
processStep(pkt) ==
    IF pkt = NullMsg THEN "panic"
    ELSE IF pkt.type = "ka" THEN "continue"
    ELSE IF pkt.type = "error"
         THEN IF pkt.payload = NoPayload THEN "panic" ELSE "stream_error"
    ELSE IF pkt.type = "data"
         THEN IF pkt.id # ReqID THEN "continue"
              ELSE IF pkt.payload = NoPayload THEN "panic"
              ELSE "dispatch"
    ELSE "continue"

\* process, lines 300-309, with the test of the continuation flag left out.
afterHandlerIgnoreStop(cont, err) ==
    IF err THEN "ret_err" ELSE "continue"

\* process, lines 300-309, with the continuation flag tested before the
\* error.
afterHandlerFlagFirst(cont, err) ==
    IF cont THEN "continue"
    ELSE IF err THEN "ret_err"
    ELSE "ret_nil"

\* process, lines 300-309: what follows the return of onData.
afterHandler(cont, err) ==
    IF err THEN "ret_err"
    ELSE IF ~cont THEN "ret_nil"
    ELSE "continue"

\* Subscribe, lines 173-177, calling onReady again after it failed.
onReadyNextRetry(ok) == IF ok THEN "process_read" ELSE "ready"

\* Subscribe, lines 173-177, with the error of onReady dropped.
onReadyNextIgnoreErr(ok) == "process_read"

\* Subscribe, lines 173-177: where control goes after onReady returned.
onReadyNext(ok) == IF ok THEN "process_read" ELSE "defer_close"

----------------------------------------------------------------------------
\* The errors the connection can give.

\* WriteJSON on a connection closed locally fails; otherwise the write
\* deadline (10 s) or the transport may fail it.
WriteErrs == IF wsClosed THEN {"closed"} ELSE {"io_timeout", "net"}

\* ReadJSON: after a local Close the read fails with a closed-connection
\* error; otherwise the read deadline (60 s, no frame arrived) or the
\* transport/decoder may fail it.
ReadErrs ==
    IF wsClosed THEN {"closed"}
    ELSE IF inbox = << >> THEN {"io_timeout", "net"}
    ELSE {"net"}

\* send(msg) at position pc: on success the frame is written and control goes
\* to okNext, on failure the caller returns errKind.
Send(type, okNext, errKind) ==
    \/ /\ ~wsClosed
       /\ sent' = Append(sent, type)
       /\ pc' = okNext
       /\ UNCHANGED result
    \/ /\ \E c \in WriteErrs : result' = Res(errKind, c)
       /\ pc' = "defer_close"
       /\ UNCHANGED sent

\* read() returned the frame at the head of the inbox. A frame that was
\* received before a local Close may still come out of the connection's read
\* buffer afterwards, so this is possible with wsClosed too.
Took(m) ==
    /\ inbox # << >>
    /\ m = Head(inbox)
    /\ inbox' = Tail(inbox)
    /\ reads' = reads + 1
    /\ lastMsg' = m
    /\ lastPhase' = pc

\* read() returned an error: the loop returns errKind.
ReadFailed(errKind) ==
    /\ \E c \in ReadErrs : result' = Res(errKind, c)
    /\ pc' = "defer_close"
    /\ UNCHANGED << inbox, reads, lastMsg, lastPhase >>

----------------------------------------------------------------------------
\* The steps of Subscribe.

\* Lines 116-119: url.Parse.
ParseEndpoint ==
    /\ pc = "parse"
    /\ \E ok \in BOOLEAN :
         IF ok THEN pc' = "dial" /\ UNCHANGED result
         ELSE pc' = "defer_cancel" /\ result' = Res("parse_error", "url")
    /\ UNCHANGED << auxVars, ctx, ctxAt, ctxPending, watcher, wsClosed, closeCalls, inbox, srvSent,
                    sent, reads, lastMsg, lastPhase, ackSeen, readyCalls, calls >>

\* Lines 137-144 with a failed DialContext tried again instead of returned.
DialRetry ==
    /\ pc = "dial"
    /\ \/ /\ ctx = "live"
          /\ pc' = "init_send"
          /\ watcher' = "waiting"
          /\ UNCHANGED result
       \/ /\ result' = Res("dial_error",
                           IF ctx = "deadline" THEN "deadline_exceeded"
                           ELSE IF ctx = "cancelled" THEN "canceled"
                           ELSE "net")
          /\ pc' = "dial"
          /\ UNCHANGED watcher
    /\ UNCHANGED << auxVars, ctx, ctxAt, ctxPending, wsClosed, closeCalls, inbox, srvSent, sent,
                    reads, lastMsg, lastPhase, ackSeen, readyCalls, calls >>

\* Lines 137-159: DialContext; on success defer ws.Close(), start the watcher
\* goroutine, build the wsSubscriber.
Dial ==
    /\ pc = "dial"
    /\ \/ /\ ctx = "live"
          /\ pc' = "init_send"
          /\ watcher' = "waiting"
          /\ UNCHANGED result
       \/ /\ result' = Res("dial_error",
                           IF ctx = "deadline" THEN "deadline_exceeded"
                           ELSE IF ctx = "cancelled" THEN "canceled"
                           ELSE "net")
          /\ pc' = "defer_cancel"
          /\ UNCHANGED watcher
    /\ UNCHANGED << auxVars, ctx, ctxAt, ctxPending, wsClosed, closeCalls, inbox, srvSent, sent,
                    reads, lastMsg, lastPhase, ackSeen, readyCalls, calls >>

\* initConnection, lines 201-203: send connection_init.
InitSend ==
    /\ pc = "init_send"
    /\ Send("connection_init", "init_read", "init_send_error")
    /\ UNCHANGED << auxVars, ctx, ctxAt, ctxPending, watcher, wsClosed, closeCalls, inbox, srvSent,
                    reads, lastMsg, lastPhase, ackSeen, readyCalls, calls >>

\* initConnection, lines 205-219: one turn of the read loop.
InitRead ==
    /\ pc = "init_read"
    /\ \/ \E m \in Msgs :
            /\ Took(m)
            /\ LET o == initStep(m) IN
                 /\ pc' = IF o = "ack" THEN "start_send"
                          ELSE IF o = "continue" THEN "init_read"
                          ELSE "defer_close"
                 /\ result' = IF o = "rejected" THEN Res("handshake_rejected", "server")
                              ELSE IF o = "panic" THEN Res("panic", "nil_deref")
                              ELSE result
       \/ ReadFailed("init_read_error")
    /\ UNCHANGED << auxVars, ctx, ctxAt, ctxPending, watcher, wsClosed, closeCalls, srvSent, sent,
                    ackSeen, readyCalls, calls >>

\* start, lines 223-244: marshal the subscription and send the start frame.
StartSend ==
    /\ pc = "start_send"
    /\ \/ Send("start", "start_read", "start_send_error")
       \/ /\ result' = Res("start_marshal_error", "json")
          /\ pc' = "defer_close"
          /\ UNCHANGED sent
    /\ UNCHANGED << auxVars, ctx, ctxAt, ctxPending, watcher, wsClosed, closeCalls, inbox, srvSent,
                    reads, lastMsg, lastPhase, ackSeen, readyCalls, calls >>

\* start, lines 246-272: one turn of the read loop.
StartRead ==
    /\ pc = "start_read"
    /\ \/ \E m \in Msgs :
            /\ Took(m)
            /\ ackSeen' = (ackSeen \/ (m.type = "start_ack" /\ m.id = ReqID))
            /\ LET o == startStep(m) IN
                 /\ pc' = IF o = "ack" THEN "ready"
                          ELSE IF o = "continue" THEN "start_read"
                          ELSE "defer_close"
                 /\ result' = IF o = "rejected" THEN Res("subscription_rejected", "server")
                              ELSE IF o = "panic" THEN Res("panic", "nil_deref")
                              ELSE result
       \/ ReadFailed("start_read_error") /\ UNCHANGED ackSeen
    /\ UNCHANGED << auxVars, ctx, ctxAt, ctxPending, watcher, wsClosed, closeCalls, srvSent, sent,
                    readyCalls, calls >>

\* Subscribe, lines 173-175: the call of onReady.
OnReady ==
    /\ pc = "ready"
    /\ readyCalls' = readyCalls + 1
    /\ \E ok \in BOOLEAN :
         /\ pc' = onReadyNext(ok)
         /\ result' = IF ok THEN result ELSE Res("trigger_error", "callback")
    /\ UNCHANGED << auxVars, ctx, ctxAt, ctxPending, watcher, wsClosed, closeCalls, inbox, srvSent,
                    sent, reads, lastMsg, lastPhase, ackSeen, calls >>

\* process, lines 276-313: one turn of the read loop, the call of onData
\* included.
ProcessRead ==
    /\ pc = "process_read"
    /\ \/ \E m \in Msgs :
            /\ Took(m)
            /\ LET o == processStep(m) IN
                 IF o = "dispatch"
                 THEN \E h \in HandlerRets :
                        LET a == afterHandler(h.cont, h.err) IN
                          /\ calls' = Append(calls, [payload |-> m.payload, cont |-> h.cont,
                                                     err |-> h.err, at |-> reads + 1])
                          /\ pc' = IF a = "continue" THEN "process_read" ELSE "defer_close"
                          /\ result' = IF a = "ret_err" THEN Res("handler_error", "callback")
                                       ELSE IF a = "ret_nil" THEN Res("ok", "none")
                                       ELSE result
                 ELSE /\ calls' = calls
                      /\ pc' = IF o = "continue" THEN "process_read" ELSE "defer_close"
                      /\ result' = IF o = "stream_error" THEN Res("stream_error", "server")
                                   ELSE IF o = "panic" THEN Res("panic", "nil_deref")
                                   ELSE result
       \/ ReadFailed("process_read_error") /\ UNCHANGED calls
    /\ UNCHANGED << auxVars, ctx, ctxAt, ctxPending, watcher, wsClosed, closeCalls, srvSent, sent,
                    ackSeen, readyCalls >>

\* Line 146: the deferred ws.Close(), run when Subscribe returns or panics.
DeferredClose ==
    /\ pc = "defer_close"
    /\ closeCalls' = closeCalls + 1
    /\ wsClosed' = TRUE
    /\ pc' = "defer_cancel"
    /\ UNCHANGED << auxVars, ctx, ctxAt, ctxPending, watcher, inbox, srvSent, sent, reads, lastMsg,
                    lastPhase, ackSeen, readyCalls, calls, result >>

\* The return of Subscribe without the deferred cancel() of line 114.
DeferredCancelNoCancel ==
    /\ pc = "defer_cancel"
    /\ pc' = IF result.kind = "panic" THEN "panicked" ELSE "returned"
    /\ UNCHANGED << auxVars, ctx, ctxAt, ctxPending, watcher, wsClosed, closeCalls, inbox, srvSent,
                    sent, reads, lastMsg, lastPhase, ackSeen, readyCalls, calls, result >>

\* Line 114: the deferred cancel(), run last; then Subscribe has returned, or
\* the panic goes on to the caller.
DeferredCancel ==
    /\ pc = "defer_cancel"
    /\ ctx' = IF ctx = "live" THEN "cancelled_self" ELSE ctx
    /\ pc' = IF result.kind = "panic" THEN "panicked" ELSE "returned"
    /\ UNCHANGED << auxVars, ctxAt, ctxPending, watcher, wsClosed, closeCalls, inbox, srvSent, sent,
                    reads, lastMsg, lastPhase, ackSeen, readyCalls, calls, result >>

\* Lines 148-153: the watcher goroutine, once ctx is done, closes the
\* connection and ends. It waits on ctx.Done() only: after a panic of
\* Subscribe, whose deferred cancel() has made ctx done, it runs too unless
\* the process ends first.
WatcherClose ==
    /\ watcher = "waiting"
    /\ ctx # "live"
    /\ closeCalls' = closeCalls + 1
    /\ wsClosed' = TRUE
    /\ watcher' = "exited"
    /\ UNCHANGED << auxVars, pc, ctx, ctxAt, ctxPending, inbox, srvSent, sent, reads, lastMsg,
                    lastPhase, ackSeen, readyCalls, calls, result >>

----------------------------------------------------------------------------
\* The environment.

\* What waits to be read while Subscribe is in Active: a data frame with the
\* id reqID and a payload, an error frame with a payload, something else, or
\* nothing.
Pending ==
    IF pc # "process_read" \/ inbox = << >> THEN "none"
    ELSE IF Head(inbox).type = "data" /\ Head(inbox).id = ReqID
            /\ Head(inbox).payload # NoPayload THEN "matching_data"
    ELSE IF Head(inbox).type = "error" /\ Head(inbox).payload # NoPayload THEN "error"
    ELSE "other"

\* The peer sends a frame on the open connection.
ServerSend ==
    /\ watcher # "absent"
    /\ ~wsClosed
    /\ Len(inbox) < MaxInbox
    /\ srvSent < MaxMsgs
    /\ \E m \in Msgs : inbox' = Append(inbox, m)
    /\ srvSent' = srvSent + 1
    /\ UNCHANGED << auxVars, pc, ctx, ctxAt, ctxPending, watcher, wsClosed, closeCalls, sent, reads,
                    lastMsg, lastPhase, ackSeen, readyCalls, calls, result >>

\* The deadline of the context given to Subscribe elapses
\* (FetchAccounts, accounts.go line 106: context.WithTimeout).
DeadlineElapses ==
    /\ ctx = "live"
    /\ pc \notin FinalPcs
    /\ ctx' = "deadline"
    /\ ctxAt' = pc
    /\ ctxPending' = Pending
    /\ UNCHANGED << auxVars, pc, watcher, wsClosed, closeCalls, inbox, srvSent, sent, reads,
                    lastMsg, lastPhase, ackSeen, readyCalls, calls, result >>

\* The caller cancels the context given to Subscribe.
ExternalCancel ==
    /\ ctx = "live"
    /\ pc \notin FinalPcs
    /\ ctx' = "cancelled"
    /\ ctxAt' = pc
    /\ ctxPending' = Pending
    /\ UNCHANGED << auxVars, pc, watcher, wsClosed, closeCalls, inbox, srvSent, sent, reads,
                    lastMsg, lastPhase, ackSeen, readyCalls, calls, result >>

Next ==
    \/ ParseEndpoint
    \/ Dial
    \/ InitSend
    \/ InitRead
    \/ StartSend
    \/ StartRead
    \/ OnReady
    \/ ProcessRead
    \/ DeferredClose
    \/ DeferredCancel
    \/ WatcherClose
    \/ ServerSend
    \/ DeadlineElapses
    \/ ExternalCancel

Spec == Init /\ [][Next]_vars

\* The steps of the goroutine that runs Subscribe.
SubscribeStep ==
    \/ ParseEndpoint
    \/ Dial
    \/ InitSend
    \/ InitRead
    \/ StartSend
    \/ StartRead
    \/ OnReady
    \/ ProcessRead
    \/ DeferredClose
    \/ DeferredCancel

\* Spec with the scheduling of the Go runtime: a goroutine that can run
\* does run, as long as the process lives: after an unrecovered panic the
\* runtime ends the process, and the watcher may or may not have run by
\* then. Nothing is assumed of the peer or of the caller's context.
FairSpec ==
    Spec /\ WF_vars(SubscribeStep) /\ WF_vars(pc # "panicked" /\ WatcherClose)

TypeOK ==
    /\ pc \in {"parse", "dial", "init_send", "init_read", "start_send", "start_read",
               "ready", "process_read"} \cup UnwindPcs
    /\ ctx \in {"live", "deadline", "cancelled", "cancelled_self"}
    /\ watcher \in {"absent", "waiting", "exited"}
    /\ wsClosed \in BOOLEAN
    /\ closeCalls \in 0..2
    /\ Len(inbox) <= MaxInbox
    /\ srvSent \in 0..MaxMsgs
    /\ reads \in 0..MaxMsgs
    /\ lastMsg \in Msgs \cup {NoMsg}
    /\ readyCalls \in Nat
    /\ ackSeen \in BOOLEAN

----------------------------------------------------------------------------
\* GenerateWSAddr (gql.go lines 184-198) on its own.
\*
\* Strings are sequences of atoms: a host is labels separated by the atom
\* ".", optionally followed by a port; a path is empty or atoms that begin
\* with "/". A literal of the code is the sequence of its atoms, so that
\* ".appsync-api." and ".amazonaws." may share a dot in a host.

\* strings.Contains(s, sub).
Contains(s, sub) ==
    \E i \in 1..(Len(s) - Len(sub) + 1) : SubSeq(s, i, i + Len(sub) - 1) = sub

\* strings.Index(s, sub), counted from 1; 0 when sub does not occur.
Index(s, sub) ==
    IF Contains(s, sub)
    THEN CHOOSE i \in 1..(Len(s) - Len(sub) + 1) :
           /\ SubSeq(s, i, i + Len(sub) - 1) = sub
           /\ \A j \in 1..(i - 1) : SubSeq(s, j, j + Len(sub) - 1) # sub
    ELSE 0

\* strings.Replace(s, old, new, 1).
ReplaceFirst(s, old, new) ==
    LET i == Index(s, old) IN
      IF i = 0 THEN s
      ELSE SubSeq(s, 1, i - 1) \o new \o SubSeq(s, i + Len(old), Len(s))

\* The literals of lines 185-188.
AppsyncApi == << ".", "appsync-api", "." >>
AppsyncRealtimeApi == << ".", "appsync-realtime-api", "." >>
Amazonaws == << ".", "amazonaws", "." >>
RealtimeSuffix == << "/", "realtime" >>

\* (*url.URL).String() of a URL with a scheme and a host and no user, query
\* or fragment: scheme "://" host path, with "/" put before a path that
\* does not begin with one.
URLString(v) ==
    << v.scheme, ":", "//" >> \o v.host
       \o (IF v.path # << >> /\ Head(v.path) # "/" THEN << "/" >> ELSE << >>)
       \o v.path

\* Lines 185-189 with || in place of &&.
RewriteHostPathEither(v) ==
    IF Contains(v.host, AppsyncApi) \/ Contains(v.host, Amazonaws)
    THEN [v EXCEPT !.host = ReplaceFirst(v.host, AppsyncApi, AppsyncRealtimeApi)]
    ELSE [v EXCEPT !.path = v.path \o RealtimeSuffix]

\* Lines 185-189: the host is rewritten, or the path extended, in place.
RewriteHostPath(v) ==
    IF Contains(v.host, AppsyncApi) /\ Contains(v.host, Amazonaws)
    THEN [v EXCEPT !.host = ReplaceFirst(v.host, AppsyncApi, AppsyncRealtimeApi)]
    ELSE [v EXCEPT !.path = v.path \o RealtimeSuffix]

\* Lines 191-195: the scheme is replaced in place.
RewriteScheme(v) ==
    [v EXCEPT !.scheme = IF v.scheme = "https" THEN "wss" ELSE "ws"]

\* GenerateWSAddr(u): what *u holds afterwards, and the string returned.
GenerateWSAddr(v) ==
    LET w == RewriteScheme(RewriteHostPath(v)) IN [url |-> w, str |-> URLString(w)]

\* The endpoints tried.
Labels == {"x", "appsync-api", "amazonaws", "com"}
Schemes == {"https", "http"}
Paths == { << >>, << "/", "graphql" >> }
Ports == { << >>, << ":", "443" >> }

RECURSIVE Join(_)
\* The labels ls joined by ".".
Join(ls) ==
    IF Len(ls) = 1 THEN << ls[1] >>
    ELSE << ls[1], "." >> \o Join(Tail(ls))

LabelSeqs == UNION { [1..n -> Labels] : n \in 1..MaxLabels }

Hosts == { Join(ls) \o p : ls \in LabelSeqs, p \in Ports }

URLs == [scheme : Schemes, host : Hosts, path : Paths]

\* url.Parse has produced *u.
AddrInit ==
    /\ SubInit
    /\ fpc = "addr"
    /\ u \in URLs
    /\ u0 = u
    /\ addrs = << >>
    /\ TicketIdle
    /\ AuthIdle
    /\ FetchIdle

\* One call GenerateWSAddr(u).
GenerateWSAddrCall ==
    /\ fpc = "addr"
    /\ Len(addrs) < MaxCalls
    /\ u' = GenerateWSAddr(u).url
    /\ addrs' = Append(addrs, GenerateWSAddr(u).str)
    /\ UNCHANGED << subVars, fpc, u0, ticketVars, auth, fa >>

AddrNext == GenerateWSAddrCall

AddrSpec == AddrInit /\ [][AddrNext]_vars

----------------------------------------------------------------------------
\* TicketRegex (request.go line 14): ^[a-zA-Z0-9_-]+$ given to MatchString.
\* A string is a sequence of characters.

\* The characters tried: letters, digits, "_" and "-", and four others.
TicketAlphabet == {"t", "Z", "1", "_", "-", " ", "|", "\n"}

\* The character class [a-zA-Z0-9_-].
InTicketClass(c) == c \in {"t", "Z", "1", "_", "-"}

RECURSIVE ClassRunToEnd(_, _)
\* From position i on: zero or more characters of the class, then $, which
\* (no multi-line flag) matches at the end of the text only.
ClassRunToEnd(s, i) ==
    IF i > Len(s) THEN TRUE
    ELSE InTicketClass(s[i]) /\ ClassRunToEnd(s, i + 1)

\* The expression with * in place of +.
TicketRegexMatchStar(s) == ClassRunToEnd(s, 1)

\* TicketRegex.MatchString(s): ^ matches at the start of the text only, so
\* the match begins at the first character: one character of the class,
\* then the rest of the run up to the end.
TicketRegexMatch(s) ==
    /\ Len(s) >= 1
    /\ InTicketClass(s[1])
    /\ ClassRunToEnd(s, 2)

Tickets == UNION { [1..n -> TicketAlphabet] : n \in 0..MaxTicketLen }

\* A string is about to be matched.
TicketInit ==
    /\ SubInit
    /\ AddrIdle
    /\ fpc = "ticket"
    /\ ticket \in Tickets
    /\ ticketOK = "unknown"
    /\ AuthIdle
    /\ FetchIdle

\* TicketRegex.MatchString(ticket).
TicketMatch ==
    /\ fpc = "ticket"
    /\ ticketOK = "unknown"
    /\ ticketOK' = IF TicketRegexMatch(ticket) THEN "match" ELSE "nomatch"
    /\ UNCHANGED << subVars, fpc, addrVars, ticket, auth, fa >>

TicketNext == TicketMatch

TicketSpec == TicketInit /\ [][TicketNext]_vars

----------------------------------------------------------------------------
\* The auth extension of one Subscribe call (gql.go lines 116-159 and
\* 233-242) on its own.

\* u.Hostname(): the host without the port.
Hostname(v) ==
    IF Contains(v.host, << ":" >>)
    THEN SubSeq(v.host, 1, Index(v.host, << ":" >>) - 1)
    ELSE v.host

\* Lines 121-124 placed after line 126: the map built from *u as
\* GenerateWSAddr left it.
authExtOfRewritten(v, tok) ==
    [host |-> Hostname(GenerateWSAddr(v).url), Authorization |-> tok]

\* Lines 121-124: authExt, built from *u as url.Parse produced it.
authExtOf(v, tok) == [host |-> Hostname(v), Authorization |-> tok]

\* json.Marshal of a map[string]string with the keys "host" and
\* "Authorization": an object whose members come in the order of the keys.
MarshalMap(m) == << << "Authorization", m.Authorization >>, << "host", m.host >> >>

\* The map a JSON object of string members decodes to.
\* Of members with the same name the last one wins.
UnmarshalMap(j) ==
    [k \in { j[i][1] : i \in DOMAIN j } |->
        j[CHOOSE i \in DOMAIN j : j[i][1] = k /\ \A n \in DOMAIN j : j[n][1] = k => n <= i][2] ]

\* base64.URLEncoding.EncodeToString(b): the encoded text with its padding.
Base64URL(b) == [b64 |-> b, padded |-> TRUE]

\* strings.ReplaceAll(s, "=", ""): "=" occurs in base64url text as padding
\* only.
StripPadding(e) == [e EXCEPT !.padded = FALSE]

\* Lines 130-135: the second sub-protocol offered.
Subprotocol(m) == << "header-", StripPadding(Base64URL(MarshalMap(m))) >>

\* What the peer reads out of the offered sub-protocol "header-...": the
\* unpadded base64url text decoded, then the JSON object.
DecodeSubprotocol(p) == UnmarshalMap(p[2].b64)

\* What the peer reads out of payload.extensions.authorization.
DecodeStartAuth(j) == UnmarshalMap(j)

Tokens == {"tokA", "tokB"}

\* The endpoints tried: the https ones.
AuthURLs == { v \in URLs : v.scheme = "https" }

\* Subscribe was called with accessToken and an endpoint that parses to *u.
AuthInit ==
    /\ SubInit
    /\ TicketIdle
    /\ fpc = "auth_build"
    /\ u \in AuthURLs
    /\ u0 = u
    /\ addrs = << >>
    /\ \E tok \in Tokens : auth = [NoAuth EXCEPT !.accessToken = tok]
    /\ FetchIdle

\* Lines 121-124.
AuthBuild ==
    /\ fpc = "auth_build"
    /\ auth' = [auth EXCEPT !.authExt = authExtOf(u, auth.accessToken)]
    /\ fpc' = "auth_addr"
    /\ UNCHANGED << subVars, addrVars, ticketVars, fa >>

\* Line 126: endpoint = GenerateWSAddr(u).
AuthGenerateWSAddr ==
    /\ fpc = "auth_addr"
    /\ u' = GenerateWSAddr(u).url
    /\ addrs' = Append(addrs, GenerateWSAddr(u).str)
    /\ fpc' = "auth_dial"
    /\ UNCHANGED << subVars, u0, ticketVars, auth, fa >>

\* Lines 130-159: the sub-protocols offered to DialContext; when the dial
\* succeeds the wsSubscriber gets the map itself, otherwise Subscribe returns.
AuthDial ==
    /\ fpc = "auth_dial"
    /\ \E ok \in BOOLEAN :
         /\ auth' = [auth EXCEPT !.offered = << "graphql-ws", Subprotocol(auth.authExt) >>,
                                 !.wssAuthExt = IF ok THEN auth.authExt ELSE @]
         /\ fpc' = IF ok THEN "auth_start" ELSE "auth_done"
    /\ UNCHANGED << subVars, addrVars, ticketVars, fa >>

\* start, lines 233-242: the start frame, marshalled by WriteJSON.
AuthStart ==
    /\ fpc = "auth_start"
    /\ auth' = [auth EXCEPT !.startAuth = MarshalMap(auth.wssAuthExt)]
    /\ fpc' = "auth_done"
    /\ UNCHANGED << subVars, addrVars, ticketVars, fa >>

AuthNext ==
    \/ AuthBuild
    \/ AuthGenerateWSAddr
    \/ AuthDial
    \/ AuthStart

AuthSpec == AuthInit /\ [][AuthNext]_vars

----------------------------------------------------------------------------
\* FetchAccounts after Subscribe returned nil (accounts.go lines 142-188):
\* the accounts map built from the policy entries of the document received.
\* A decimal string is the sequence of its characters.

\* The value of a decimal digit.
DigitVal(c) ==
    CASE c = "0" -> 0 [] c = "1" -> 1 [] c = "2" -> 2 [] c = "3" -> 3 [] c = "4" -> 4
      [] c = "5" -> 5 [] c = "6" -> 6 [] c = "7" -> 7 [] c = "8" -> 8 [] c = "9" -> 9

Digits == {"0", "1", "2", "3", "4", "5", "6", "7", "8", "9"}

RECURSIVE DecimalVal(_)
\* The number that a sequence of digits writes in base 10.
DecimalVal(ds) ==
    IF ds = << >> THEN 0
    ELSE 10 * DecimalVal(SubSeq(ds, 1, Len(ds) - 1)) + DigitVal(ds[Len(ds)])

\* strconv.Atoi(str): an optional sign, then one digit or more and nothing
\* else; anything else is an error.
Atoi(str) ==
    LET signed == str # << >> /\ Head(str) \in {"+", "-"}
        ds == IF signed THEN Tail(str) ELSE str
    IN  IF ds = << >> \/ \E i \in DOMAIN ds : ds[i] \notin Digits
        THEN [ok |-> FALSE, val |-> 0]
        ELSE [ok |-> TRUE,
              val |-> IF signed /\ Head(str) = "-" THEN 0 - DecimalVal(ds) ELSE DecimalVal(ds)]

\* The builtin max of two ints.
Max(a, b) == IF a >= b THEN a ELSE b

\* The map m with key k set to v.
MapSet(m, k, v) == [x \in DOMAIN m \cup {k} |-> IF x = k THEN v ELSE m[x]]

\* Lines 171-174: a Role as it is made, both maxima zero.
NewRole(id) == [ID |-> id, MaxDurNoApproval |-> 0, MaxDurApproval |-> 0]

\* Lines 169-183 with the test of ApprovalRequired left out.
ApplyPermAnyApproval(roles, perm, duration, approvalRequired) ==
    LET role == IF perm \in DOMAIN roles THEN roles[perm] ELSE NewRole(perm) IN
      MapSet(roles, perm,
             [role EXCEPT !.MaxDurApproval = Max(duration, role.MaxDurApproval),
                          !.MaxDurNoApproval = Max(duration, role.MaxDurNoApproval)])

\* Lines 169-183: one permission of a policy entry, for one account.
ApplyPerm(roles, perm, duration, approvalRequired) ==
    LET role == IF perm \in DOMAIN roles THEN roles[perm] ELSE NewRole(perm) IN
      MapSet(roles, perm,
             [role EXCEPT !.MaxDurApproval = Max(duration, role.MaxDurApproval),
                          !.MaxDurNoApproval = IF ~approvalRequired
                                               THEN Max(duration, role.MaxDurNoApproval)
                                               ELSE @])

RECURSIVE ApplyPerms(_, _, _, _)
\* Lines 166-184: the permissions of the entry in their order.
ApplyPerms(roles, perms, duration, approvalRequired) ==
    IF perms = << >> THEN roles
    ELSE ApplyPerms(ApplyPerm(roles, Head(perms), duration, approvalRequired),
                    Tail(perms), duration, approvalRequired)

\* Lines 155-184: one account of a policy entry.
ApplyAccount(accounts, id, perms, duration, approvalRequired) ==
    LET acc == IF id \in DOMAIN accounts THEN accounts[id]
               ELSE [ID |-> id, Roles |-> << >>] IN
      MapSet(accounts, id,
             [acc EXCEPT !.Roles = ApplyPerms(acc.Roles, perms, duration, approvalRequired)])

RECURSIVE ApplyAccounts(_, _, _, _, _)
\* Lines 152-185: the accounts of the entry in their order.
ApplyAccounts(accounts, ids, perms, duration, approvalRequired) ==
    IF ids = << >> THEN accounts
    ELSE ApplyAccounts(ApplyAccount(accounts, Head(ids), perms, duration, approvalRequired),
                       Tail(ids), perms, duration, approvalRequired)

\* The documents tried.
DurationStrings == { << "1" >>, << "2" >>, << "-", "1" >>, << "x" >> }
AccountLists == { << >>, << "a1" >>, << "a2", "a1" >> }
PermLists == { << "r1" >>, << "r1", "r2" >> }
PolicyEntries ==
    [accounts : AccountLists, permissions : PermLists,
     approvalRequired : BOOLEAN, duration : DurationStrings]
Policies == UNION { [1..n -> PolicyEntries] : n \in 0..MaxPolicies }

\* Subscribe returned nil and rawPolicy holds the document (line 142).
FetchInit ==
    /\ SubInit
    /\ AddrIdle
    /\ TicketIdle
    /\ AuthIdle
    /\ fpc = "fetch_loop"
    /\ \E ps \in Policies : fa = [policy |-> ps, next |-> 1, accounts |-> << >>]

\* Lines 144-186: one turn of the loop over the policy entries.
FetchPolicyEntry ==
    /\ fpc = "fetch_loop"
    /\ fa.next <= Len(fa.policy)
    /\ LET pol == fa.policy[fa.next]
           d == Atoi(pol.duration)
       IN  IF ~d.ok
           THEN /\ fpc' = "fetch_error"
                /\ fa' = [fa EXCEPT !.accounts = << >>]
           ELSE /\ fpc' = fpc
                /\ fa' = [fa EXCEPT !.next = @ + 1,
                                    !.accounts = ApplyAccounts(@, pol.accounts, pol.permissions,
                                                               d.val, pol.approvalRequired)]
    /\ UNCHANGED << subVars, addrVars, ticketVars, auth >>

\* Line 188: the loop is over, the map is returned.
FetchReturn ==
    /\ fpc = "fetch_loop"
    /\ fa.next > Len(fa.policy)
    /\ fpc' = "fetch_done"
    /\ UNCHANGED << subVars, addrVars, ticketVars, auth, fa >>

FetchNext ==
    \/ FetchPolicyEntry
    \/ FetchReturn

FetchSpec == FetchInit /\ [][FetchNext]_vars

----------------------------------------------------------------------------
\* Properties of Subscribe.

\* The frame with which start() ends successfully.
MatchingAck(m) == m.type = "start_ack" /\ m.id = ReqID

\* Number of start frames written.
StartsSent == Cardinality({ i \in 1..Len(sent) : sent[i] = "start" })

\* C1: onReady is invoked only after a start_ack whose id is reqID has been
\* read: every step that invokes it finds that ack already read, and the only
\* step that leads to the invocation is the read, in Starting, of that ack;
\* a start_ack with another id or any other frame read in Starting does not.
C1_TriggerOnlyAfterMatchingAck ==
    [][ /\ (readyCalls' # readyCalls => ackSeen)
        /\ (pc # "ready" /\ pc' = "ready" =>
              pc = "start_read" /\ reads' = reads + 1 /\ MatchingAck(lastMsg'))
        /\ (pc = "start_read" /\ reads' = reads + 1 /\ ~MatchingAck(lastMsg') =>
              pc' # "ready" /\ readyCalls' = readyCalls) ]_vars

\* C1 witness: the trigger has been invoked, after the matching ack.
C1_Witness == readyCalls = 1 /\ ackSeen /\ lastPhase = "start_read" /\ MatchingAck(lastMsg)

\* C2 (as claimed): whenever the dial succeeded, ws.Close() is called exactly
\* once, counting the deferred close and the close of the watcher goroutine.
C2_CloseExactlyOnce ==
    /\ closeCalls <= 1
    /\ (pc = "returned" /\ watcher # "absent" => closeCalls = 1)

\* C3: onReady is invoked exactly once when Starting completed and not at all
\* otherwise, the start frame is written at most once, and after a failure
\* nothing but the unwinding of Subscribe follows.
C3_TriggerExactlyOnce ==
    /\ readyCalls <= 1
    /\ StartsSent <= 1
    /\ (readyCalls = 1 => ackSeen)
    /\ (ackSeen /\ pc # "ready" => readyCalls = 1)
    /\ (result.kind # "none" => pc \in UnwindPcs)

\* C3 witness: the trigger failed, Subscribe returned, it was called once.
C3_Witness ==
    pc = "returned" /\ result.kind = "trigger_error" /\ readyCalls = 1 /\ StartsSent = 1

\* C4: reading a "ka" frame, in any of the three loops, leaves the loop where
\* it is, sends nothing, ends nothing and calls neither onReady nor onData.
C4_KeepAliveIgnored ==
    [][ reads' = reads + 1 /\ lastMsg'.type = "ka" =>
          /\ pc \in ReadPcs
          /\ pc' = pc
          /\ sent' = sent
          /\ result' = result
          /\ readyCalls' = readyCalls
          /\ calls' = calls
          /\ wsClosed' = wsClosed ]_vars

\* C4 witness: a "ka" was read in Active and the loop is still reading.
C4_Witness ==
    lastMsg.type = "ka" /\ lastPhase = "process_read" /\ pc = "process_read"

\* C5: in Active, reading a data frame whose id is not reqID calls no onData,
\* ends nothing, and the loop goes on to the next read.
C5_MismatchedDataDropped ==
    [][ pc = "process_read" /\ reads' = reads + 1
        /\ lastMsg'.type = "data" /\ lastMsg'.id # ReqID =>
          /\ pc' = "process_read"
          /\ calls' = calls
          /\ result' = result
          /\ readyCalls' = readyCalls
          /\ sent' = sent ]_vars

\* C5 witness: a data frame with another id carrying a payload was read in
\* Active; onData was not called and the loop is still reading.
C5_Witness ==
    /\ lastMsg = Msg("data", OtherID, "p1")
    /\ lastPhase = "process_read"
    /\ pc = "process_read"
    /\ calls = << >>

\* A result that reports a timeout: the context's deadline, or an I/O deadline.
IsTimeoutError(r) == r.cause \in {"deadline_exceeded", "io_timeout"}

\* C6 (as claimed): when the deadline elapsed while Subscribe was reading in
\* Active and the read then failed for no fault of the transport, what
\* Subscribe returns is a timeout error and the connection is closed.
C6_DeadlineInActiveIsTimeout ==
    (/\ pc = "returned"
     /\ ctx = "deadline"
     /\ ctxAt = "process_read"
     /\ result.kind = "process_read_error"
     /\ result.cause # "net") =>
        (IsTimeoutError(result) /\ wsClosed)

\* C7: a connection_error read during the handshake makes Subscribe fail with
\* the handshake-rejected error: no start frame is written, onReady and
\* onData are never called, and the connection is closed on return.
C7_HandshakeRejected ==
    (lastPhase = "init_read" /\ lastMsg.type = "connection_error") =>
        /\ result = Res("handshake_rejected", "server")
        /\ pc \in {"defer_close", "defer_cancel", "returned"}
        /\ sent = << "connection_init" >>
        /\ readyCalls = 0
        /\ calls = << >>
        /\ (pc = "returned" => wsClosed /\ closeCalls >= 1)

\* C7 witness: Subscribe returned after a connection_error in the handshake.
C7_Witness ==
    pc = "returned" /\ lastPhase = "init_read" /\ lastMsg.type = "connection_error"

\* C8: when onReady returns an error, Subscribe returns it without an Active
\* phase: the last frame read stays the matching start_ack, onData is never
\* called.
C8_TriggerFailureAborts ==
    result.kind = "trigger_error" =>
        /\ pc \in {"defer_close", "defer_cancel", "returned"}
        /\ readyCalls = 1
        /\ lastPhase = "start_read"
        /\ MatchingAck(lastMsg)
        /\ calls = << >>

\* C8 witness: Subscribe returned the trigger's error while a frame was
\* waiting on the connection, unread.
C8_Witness ==
    pc = "returned" /\ result.kind = "trigger_error" /\ inbox # << >>

\* C9: when onData, called for the first matching data frame, returns
\* (false, nil), Subscribe returns nil, onData was called exactly once, with
\* the payload of that frame, and no frame is read after it.
C9_StopOnFirstData ==
    (Len(calls) >= 1 /\ ~calls[1].cont /\ ~calls[1].err) =>
        /\ Len(calls) = 1
        /\ pc \in {"defer_close", "defer_cancel", "returned"}
        /\ result = Res("ok", "none")
        /\ reads = calls[1].at
        /\ lastMsg = Msg("data", ReqID, calls[1].payload)
        /\ lastPhase = "process_read"
        /\ readyCalls = 1
        /\ ackSeen

\* C9 witness: Subscribe returned nil after one call of onData, and a frame
\* that arrived later was left unread.
C9_Witness ==
    /\ pc = "returned"
    /\ result.kind = "ok"
    /\ Len(calls) = 1
    /\ calls[1].payload = "p2"
    /\ inbox # << >>

\* C10 (as claimed): the result follows the priority trigger error > protocol
\* fatal error > timeout > success. With the deadline elapsed in Active while
\* a matching data frame was waiting, the result is not success; with the
\* deadline elapsed in Active while a server error frame was waiting (and no
\* fault of the transport), the result is the protocol error.
C10_OutcomePriority ==
    (pc = "returned" /\ ctx = "deadline" /\ ctxAt = "process_read") =>
        /\ (ctxPending = "matching_data" => result.kind # "ok")
        /\ (ctxPending = "error" /\ result.cause # "net" =>
              result.kind = "stream_error")

----------------------------------------------------------------------------
\* Properties of GenerateWSAddr.

\* The two endpoints of the scenarios.
SvcExample == [scheme |-> "https",
               host |-> << "svc", ".", "example", ".", "com" >>,
               path |-> << >>]
AppsyncExample == [scheme |-> "https",
                   host |-> << "x", ".", "appsync-api", ".", "us-east-1", ".",
                               "amazonaws", ".", "com" >>,
                   path |-> << "/", "graphql" >>]

\* The address the claim gives for the endpoint v, as scheme, host and path.
ClaimedAddr(v, a) ==
    /\ a.scheme = (IF v.scheme = "https" THEN "wss" ELSE "ws")
    /\ IF Contains(v.host, AppsyncApi) /\ Contains(v.host, Amazonaws)
       THEN /\ a.path = v.path
            /\ \E i \in 1..Len(v.host) :
                 /\ SubSeq(v.host, i, i + 2) = AppsyncApi
                 /\ ~Contains(SubSeq(v.host, 1, i + 1), AppsyncApi)
                 /\ a.host = SubSeq(v.host, 1, i - 1) \o AppsyncRealtimeApi
                               \o SubSeq(v.host, i + 3, Len(v.host))
       ELSE /\ a.host = v.host
            /\ a.path = v.path \o << "/", "realtime" >>

\* C11: the first call of GenerateWSAddr on a parsed http(s) endpoint returns
\* scheme "://" host path, the parts *u then holds, where: with both ".appsync-api." and ".amazonaws."
\* in the host, the first ".appsync-api." is replaced by
\* ".appsync-realtime-api." and the path kept; otherwise the host is kept and
\* "/realtime" appended to the path; https gives wss and http gives ws. The
\* two scenario endpoints give the two scenario addresses.
C11_GenerateWSAddr ==
    /\ (Len(addrs) = 1 =>
          /\ ClaimedAddr(u0, u)
          /\ addrs[1] = << u.scheme, ":", "//" >> \o u.host \o u.path)
    /\ GenerateWSAddr(SvcExample).str =
          << "wss", ":", "//", "svc", ".", "example", ".", "com", "/", "realtime" >>
    /\ GenerateWSAddr(AppsyncExample).str =
          << "wss", ":", "//", "x", ".", "appsync-realtime-api", ".", "us-east-1", ".",
             "amazonaws", ".", "com", "/", "graphql" >>

\* C11 witness: a host with two occurrences of ".appsync-api." and one of
\* ".amazonaws." has been rewritten.
C11_Witness ==
    /\ Len(addrs) = 1
    /\ u0.host = << "x", ".", "appsync-api", ".", "x", ".", "appsync-api", ".",
                    "amazonaws", ".", "com" >>
    /\ u.host = << "x", ".", "appsync-realtime-api", ".", "x", ".", "appsync-api", ".",
                   "amazonaws", ".", "com" >>

\* C12 (as claimed): GenerateWSAddr is pure: two calls with the same endpoint
\* value return the same address, the value is left as it was, and an https
\* endpoint always gives a wss address.
C12_GenerateWSAddrPure ==
    /\ u = u0
    /\ \A i, j \in 1..Len(addrs) : addrs[i] = addrs[j]
    /\ \A i \in 1..Len(addrs) : u0.scheme = "https" => addrs[i][1] = "wss"

----------------------------------------------------------------------------
\* Properties of TicketRegex.

\* The characters of a text, for the strings of TestTicketRegex.
Ticket123 == << "t", "-", "1" >>
Padded123 == << " ", "1", " " >>

\* C13: MatchString accepts exactly the non-empty strings made of letters,
\* digits, "_" and "-" only: the empty string and a string with any other
\* character at any place, first and last included, are rejected.
C13_TicketRegexExact ==
    /\ (ticketOK # "unknown" =>
          (ticketOK = "match" <=>
             /\ ticket # << >>
             /\ \A i \in 1..Len(ticket) : ticket[i] \notin {" ", "|", "\n"}))
    /\ TicketRegexMatch(Ticket123)
    /\ ~TicketRegexMatch(Padded123)
    /\ ~TicketRegexMatch(<< " ", " " >>)
    /\ ~TicketRegexMatch(<< "|", "|", "|" >>)

\* C13 witness: a string that ends with a line feed after valid characters
\* has been rejected.
C13_Witness ==
    ticket = << "t", "1", "\n" >> /\ ticketOK = "nomatch"

----------------------------------------------------------------------------
\* More properties of Subscribe.

\* The protocol states in their order: Disconnected, Dialing, Initializing,
\* Ready, Starting, the trigger, Active, Closed.
PhaseRank(p) ==
    CASE p = "parse" -> 0
      [] p = "dial" -> 1
      [] p \in {"init_send", "init_read"} -> 2
      [] p = "start_send" -> 3
      [] p = "start_read" -> 4
      [] p = "ready" -> 5
      [] p = "process_read" -> 6
      [] p \in UnwindPcs -> 7

\* C14: a connection goes through its states in order, never backwards:
\* connection_init is the first frame written and is written once (no frame
\* is written only when that write failed), start is written at most once and
\* right after connection_ack was read, onData is called only after onReady
\* returned nil, and nothing is read, written or dispatched once Subscribe
\* has returned.
C14_LinearOrder ==
    /\ [](/\ sent \in { << >>, << "connection_init" >>, << "connection_init", "start" >> }
          /\ (pc \in {"init_read", "start_send", "start_read", "ready", "process_read"}
                => sent # << >>)
          /\ (sent = << >> /\ pc \in UnwindPcs /\ watcher # "absent"
                => result.kind = "init_send_error"))
    /\ [][ /\ PhaseRank(pc') >= PhaseRank(pc)
           /\ (sent' # sent /\ sent # << >> =>
                 lastPhase = "init_read" /\ lastMsg.type = "connection_ack" /\ reads' = reads)
           /\ (calls' # calls =>
                 pc = "process_read" /\ readyCalls = 1 /\ result.kind = "none")
           /\ (pc \in FinalPcs =>
                 /\ reads' = reads
                 /\ sent' = sent
                 /\ calls' = calls
                 /\ readyCalls' = readyCalls
                 /\ pc' = pc
                 /\ result' = result) ]_vars

\* C14 witness: Subscribe returned nil after both frames were written, the
\* trigger ran and onData was called twice.
C14_Witness ==
    /\ pc = "returned"
    /\ sent = << "connection_init", "start" >>
    /\ readyCalls = 1
    /\ Len(calls) = 2
    /\ result.kind = "ok"

\* C15 (as claimed): an error frame read in Starting or Active ends the
\* operation with the fatal error of that phase, and the error returned
\* carries every sub-error of the frame's payload.
C15_ErrorCarriesSubErrors ==
    (/\ lastMsg.type = "error"
     /\ lastMsg.payload # NoPayload
     /\ lastPhase \in {"start_read", "process_read"}) =>
        /\ pc \in {"defer_close", "defer_cancel", "returned"}
        /\ result.kind = (IF lastPhase = "start_read" THEN "subscription_rejected"
                          ELSE "stream_error")
        /\ CarriedErrors(result) = SubErrors(lastMsg.payload)

\* The context given to Subscribe was cancelled, or its deadline elapsed,
\* while Subscribe was between the dial and its return statement.
CancelledAfterDial ==
    /\ ctx \in {"cancelled", "deadline"}
    /\ ctxAt \in {"init_send", "init_read", "start_send", "start_read", "ready", "process_read"}

\* C16 (as claimed): after a cancellation that comes after the dial,
\* Subscribe eventually returns to its caller with the connection closed.
C16_CancelUnwinds == CancelledAfterDial ~> (pc = "returned" /\ wsClosed)

\* The same with either end of Subscribe, the return or the panic.
CancelEndsSubscribe == CancelledAfterDial ~> (pc \in FinalPcs /\ wsClosed)

\* The kinds that have a case of their own in the switch of the read loop
\* at position p.
CaseKinds(p) ==
    IF p = "init_read" THEN {"connection_ack", "connection_error"}
    ELSE IF p = "start_read" THEN {"ka", "error", "start_ack"}
    ELSE IF p = "process_read" THEN {"ka", "error", "data"}
    ELSE {}

\* C17: a frame of a kind without a case in the phase where it is read is
\* skipped: the phase, the outcome, the frames written and the calls of
\* onReady and onData stay as they were, and the next step of Subscribe is
\* the next read. (The text frame null has no kind; it is not a message.)
C17_UnknownKindsSkipped ==
    [][ (/\ reads' = reads + 1
         /\ lastMsg' # NullMsg
         /\ lastMsg'.type \notin CaseKinds(pc)) =>
            /\ pc \in ReadPcs
            /\ pc' = pc
            /\ result' = result
            /\ sent' = sent
            /\ readyCalls' = readyCalls
            /\ calls' = calls
            /\ ackSeen' = ackSeen ]_vars

C17_Witness ==
    /\ lastPhase = "process_read"
    /\ lastMsg.type \in {"complete", "start_ack", "connection_ack"}
    /\ pc = "process_read"
    /\ result.kind = "none"
    /\ reads >= 3

\* C18: the watcher goroutine is started once, by the successful dial and
\* by nothing else; it ends only by closing the connection after ctx is
\* done; when Subscribe has ended with the watcher still waiting, ctx is
\* done, and after the return of Subscribe the watcher does end.
C18_WatcherTerminates ==
    /\ [](watcher # "absent" =>
            /\ PhaseRank(pc) >= 2
            /\ result.kind \notin {"parse_error", "dial_error"})
    /\ [][ watcher' # watcher =>
            \/ /\ watcher = "absent" /\ watcher' = "waiting"
               /\ pc = "dial" /\ pc' = "init_send"
            \/ /\ watcher = "waiting" /\ watcher' = "exited"
               /\ ctx # "live" ]_vars
    /\ []((pc \in FinalPcs /\ watcher = "waiting") => ctx # "live")
    /\ ((pc = "returned" /\ watcher = "waiting") ~> (watcher = "exited"))

C18_Witness ==
    /\ pc = "returned"
    /\ result.kind = "ok"
    /\ ctx = "cancelled_self"
    /\ watcher = "exited"
    /\ closeCalls = 2

\* C19: once url.Parse or DialContext has failed, Subscribe is on its way
\* out with that error: it does not dial again, there is no connection and
\* no watcher, nothing was written or read, and neither onReady nor onData
\* was called.
C19_ConnectFailureIsFinal ==
    result.kind \in {"parse_error", "dial_error"} =>
        /\ pc \in {"defer_cancel", "returned"}
        /\ watcher = "absent"
        /\ ~wsClosed /\ closeCalls = 0
        /\ sent = << >>
        /\ reads = 0 /\ srvSent = 0
        /\ readyCalls = 0
        /\ calls = << >>

C19_Witness ==
    /\ pc = "returned"
    /\ result.kind = "dial_error"
    /\ ctx = "cancelled_self"
    /\ sent = << >>

----------------------------------------------------------------------------
\* Properties of the auth extension.

\* An AppSync endpoint host among the endpoints tried.
AuthExampleHost == Join(<< "x", "appsync-api", "x", "amazonaws", "com" >>)

\* C20: what the peer decodes from the sub-protocol offered at the dial and
\* from the start frame is the one map built from the accessToken argument
\* and from the hostname of the endpoint as it was given: not the host of
\* the websocket address, and without the port.
C20_OneAuthExt ==
    LET given == [host |-> Hostname(u0), Authorization |-> auth.accessToken] IN
      /\ (auth.offered # << >> =>
            /\ Len(auth.offered) = 2
            /\ DecodeSubprotocol(auth.offered[2]) = given
            /\ ~auth.offered[2][2].padded)
      /\ (auth.startAuth # << >> =>
            /\ auth.offered # << >>
            /\ DecodeStartAuth(auth.startAuth) = DecodeSubprotocol(auth.offered[2])
            /\ DecodeStartAuth(auth.startAuth) = given)
      /\ (auth.authExt # NoAuthExt =>
            /\ ~Contains(auth.authExt.host, << ":" >>)
            /\ SubSeq(u0.host, 1, Len(auth.authExt.host)) = auth.authExt.host
            /\ (u0.host = AuthExampleHost \o << ":", "443" >> =>
                  auth.authExt.host = AuthExampleHost))

C20_Witness ==
    /\ fpc = "auth_done"
    /\ auth.startAuth # << >>
    /\ u0.host = AuthExampleHost \o << ":", "443" >>
    /\ u.host # u0.host
    /\ DecodeStartAuth(auth.startAuth).host = AuthExampleHost
    /\ auth.accessToken = "tokB"

----------------------------------------------------------------------------
\* Properties of Subscribe: frames without payload, the error of onData,
\* data frames read early.

\* C21 (as claimed): a frame without payload ends nothing abnormally. An
\* error frame without payload read in Starting or Active gives the fatal
\* error of that phase, and a data frame with the id reqID and no payload
\* read in Active is dispatched or dropped; Subscribe never panics on them.
C21_AbsentPayloadHandled ==
    /\ (/\ lastMsg.type = "error"
        /\ lastMsg.payload = NoPayload
        /\ lastPhase \in {"start_read", "process_read"}) =>
            /\ pc \in {"defer_close", "defer_cancel", "returned"}
            /\ result.kind = (IF lastPhase = "start_read" THEN "subscription_rejected"
                              ELSE "stream_error")
    /\ (lastMsg = Msg("data", ReqID, NoPayload) /\ lastPhase = "process_read") =>
            /\ pc # "panicked"
            /\ result.kind # "panic"

\* C22: a call of onData that returned an error is the last one, whatever
\* flag came with the error: Subscribe is on its way out with that error, the
\* data frame of the call is the last frame read, and when Subscribe has
\* returned the connection is closed.
C22_HandlerErrorStops ==
    \A i \in 1..Len(calls) :
        calls[i].err =>
            /\ i = Len(calls)
            /\ pc \in {"defer_close", "defer_cancel", "returned"}
            /\ result = Res("handler_error", "callback")
            /\ reads = calls[i].at
            /\ lastMsg = Msg("data", ReqID, calls[i].payload)
            /\ lastPhase = "process_read"
            /\ (pc = "returned" => wsClosed /\ closeCalls >= 1)

\* C22 witness: onData returned (true, err); Subscribe returned the error
\* with a later frame left unread.
C22_Witness ==
    /\ pc = "returned"
    /\ Len(calls) = 1
    /\ calls[1].err /\ calls[1].cont
    /\ result.kind = "handler_error"
    /\ wsClosed
    /\ inbox # << >>

\* C23: a data frame with the id reqID read in Initializing or Starting is
\* skipped like any frame without a case there, and every call of onData is
\* made in Active, after the one successful call of onReady, for the data
\* frame read in that same turn of the loop: a frame read earlier is never
\* the one delivered.
C23_EarlyDataDiscarded ==
    [][ /\ (/\ pc \in {"init_read", "start_read"}
            /\ reads' = reads + 1
            /\ lastMsg'.type = "data" /\ lastMsg'.id = ReqID) =>
               /\ pc' = pc
               /\ calls' = calls
               /\ result' = result
               /\ readyCalls' = readyCalls
               /\ ackSeen' = ackSeen
        /\ (calls' # calls =>
               /\ pc = "process_read"
               /\ readyCalls = 1 /\ ackSeen
               /\ result.kind = "none"
               /\ reads' = reads + 1
               /\ Len(calls') = Len(calls) + 1
               /\ SubSeq(calls', 1, Len(calls)) = calls
               /\ calls'[Len(calls')].at = reads'
               /\ lastMsg' = Msg("data", ReqID, calls'[Len(calls')].payload)) ]_vars

\* C23 witness: a data frame with the id reqID was read in Starting, before
\* the acknowledgement; onData was not called and the loop is still reading.
C23_Witness ==
    /\ lastMsg = Msg("data", ReqID, "p1")
    /\ lastPhase = "start_read"
    /\ pc = "start_read"
    /\ ~ackSeen
    /\ calls = << >>

----------------------------------------------------------------------------
\* Properties of FetchAccounts.

\* The elements of the sequence s.
Range(s) == { s[i] : i \in DOMAIN s }

\* The durations of the entries of the document that list account a and
\* permission r; with noApprovalOnly, of those that need no approval.
DurationsOf(a, r, noApprovalOnly) ==
    { Atoi(fa.policy[i].duration).val :
        i \in { j \in DOMAIN fa.policy :
                  /\ a \in Range(fa.policy[j].accounts)
                  /\ r \in Range(fa.policy[j].permissions)
                  /\ (noApprovalOnly => ~fa.policy[j].approvalRequired) } }

\* The greatest element of a non-empty set of integers.
MaxOf(S) == CHOOSE x \in S : \A y \in S : y <= x

\* The pairs of an account and a permission listed together by some entry.
ListedPairs ==
    { p \in {"a1", "a2"} \X {"r1", "r2"} : DurationsOf(p[1], p[2], FALSE) # {} }

\* C24 (as claimed): in the map returned, the role of every listed account
\* and permission has MaxDurApproval equal to the greatest duration of the
\* entries listing them, MaxDurNoApproval equal to the greatest duration of
\* those that need no approval (0 when there is none), and so
\* MaxDurNoApproval <= MaxDurApproval.
C24_MaxDurations ==
    fpc = "fetch_done" =>
        \A p \in ListedPairs :
            /\ p[1] \in DOMAIN fa.accounts
            /\ p[2] \in DOMAIN fa.accounts[p[1]].Roles
            /\ LET role == fa.accounts[p[1]].Roles[p[2]]
                   all == DurationsOf(p[1], p[2], FALSE)
                   free == DurationsOf(p[1], p[2], TRUE)
               IN  /\ role.MaxDurApproval = MaxOf(all)
                   /\ role.MaxDurNoApproval = (IF free = {} THEN 0 ELSE MaxOf(free))
                   /\ role.MaxDurNoApproval <= role.MaxDurApproval

\* C24 (amended): the same with each maximum taken over the durations and
\* 0, the value both fields start from; the map holds the listed accounts
\* and permissions and no others. The document alone, not the order of its
\* entries, decides every value.
C24_MaxDurationsOrZero ==
    fpc = "fetch_done" =>
        /\ DOMAIN fa.accounts = { p[1] : p \in ListedPairs }
                                  \cup UNION { Range(fa.policy[j].accounts) : j \in DOMAIN fa.policy }
        /\ \A a \in DOMAIN fa.accounts :
             DOMAIN fa.accounts[a].Roles = { p[2] : p \in { q \in ListedPairs : q[1] = a } }
        /\ \A p \in ListedPairs :
             LET role == fa.accounts[p[1]].Roles[p[2]] IN
               /\ role.MaxDurApproval = MaxOf(DurationsOf(p[1], p[2], FALSE) \cup {0})
               /\ role.MaxDurNoApproval = MaxOf(DurationsOf(p[1], p[2], TRUE) \cup {0})
               /\ role.MaxDurNoApproval <= role.MaxDurApproval

\* C24 witness: the map was returned for a document of two entries that
\* both list a1 and r1, the first for 1 without approval, the second for 2
\* with approval; a2 and r2 are listed by one of them only.
C24_Witness ==
    /\ fpc = "fetch_done"
    /\ Len(fa.policy) = 2
    /\ fa.policy[1] = [accounts |-> << "a1" >>, permissions |-> << "r1", "r2" >>,
                       approvalRequired |-> FALSE, duration |-> << "1" >>]
    /\ fa.policy[2] = [accounts |-> << "a2", "a1" >>, permissions |-> << "r1" >>,
                       approvalRequired |-> TRUE, duration |-> << "2" >>]
    /\ fa.accounts["a1"].Roles["r1"].MaxDurApproval = 2
    /\ fa.accounts["a1"].Roles["r1"].MaxDurNoApproval = 1
    /\ fa.accounts["a2"].Roles["r1"].MaxDurNoApproval = 0

====
